---- MODULE Spec2Model ----
(***************************************************************************)
(* Differentiable discrete distributions of agent_torch                    *)
(* (agent_torch/core/distributions/distributions.py): the five             *)
(* torch.autograd.Function operators, each a forward sampler that saves a  *)
(* context and a backward rule that reads it.                              *)
(*                                                                         *)
(* Numbers.  A tensor cell holds a rational <<n, d>> in lowest terms with  *)
(* d > 0; d = 0 carries the IEEE specials a division by zero yields        *)
(* (<<1,0>> = inf, <<-1,0>> = -inf, <<0,0>> = nan).  Products and          *)
(* quotients are exact (their float rounding is not modelled).             *)
(*                                                                         *)
(* Tensors.  The four elementwise operators run the same code in every     *)
(* broadcast cell, so a tensor is its shape together with the value of one *)
(* cell: [shape |-> <<d1, ..>>, v |-> value].  The categorical operator    *)
(* works on one whole 1-D vector, so there v is the sequence of entries.   *)
(***************************************************************************)
EXTENDS Integers, Sequences, FiniteSets, TLC

VARIABLES
    op,           \* operator of the current invocation ("none" before any)
    phase,        \* "idle" | "saved" (forward ran) | "done" (backward returned) | "failed" (backward raised)
    passed,       \* the parameter tensors as the caller passed them to forward
    draw,         \* what the sampler drew in forward (the outcome, or the uniform u)
    caller,       \* the caller's parameter tensors as they are now
    ctx,          \* ctx.saved_tensors of the invocation's context
    out,          \* what forward returned
    grad_output,  \* upstream gradient handed to backward
    grads,        \* what backward returned (one entry per forward input)
    saves,        \* calls of ctx.save_for_backward on this context
    reads         \* reads of ctx.saved_tensors on this context

vars == <<op, phase, passed, draw, caller, ctx, out, grad_output, grads, saves, reads>>

----------------------------------------------------------------------------
(* Bounds of the model *)

\* largest extent of a tensor dimension
MaxDim == 3
\* upstream gradient cells range over -1 .. MaxG
MaxG == 2
\* Geometric draws whose sample exceeds MaxSample are not explored
MaxSample == 3
\* longest probability vector handed to StochasticCategorical
MaxLen == 3
\* number of values torch.rand can return in [0,1): they are the multiples
\* of 1/RandSteps (2^24 for float32); probabilities lie on the same grid,
\* on which float addition below 1 is exact
RandSteps == 10
\* a float vector counts as a probability vector when its sum is within
\* SumTol grid steps of 1 (float32 normalisation w / w.sum() lands two steps
\* below 1 for e.g. w = [0.19790652, 0.31308299])
SumTol == 2

----------------------------------------------------------------------------
(* Rational arithmetic on tensor cells *)

Abs(x) == IF x < 0 THEN -x ELSE x

Sign(x) == IF x < 0 THEN -1 ELSE IF x = 0 THEN 0 ELSE 1

RECURSIVE GCD(_, _)
GCD(a, b) == IF b = 0 THEN a ELSE GCD(b, a % b)

\* n/d in lowest terms; d = 0 gives inf, -inf or nan
R(n, d) ==
    IF d = 0 THEN <<Sign(n), 0>>
    ELSE LET g == GCD(Abs(n), Abs(d))
         IN  <<Sign(d) * (n \div g), Abs(d) \div g>>

Zero == <<0, 1>>
One == <<1, 1>>
Two == <<2, 1>>
NaN == <<0, 0>>

IsFinite(a) == a[2] # 0

RAdd(a, b) ==
    IF a[2] = 0 /\ b[2] = 0 THEN (IF a = b THEN a ELSE NaN)
    ELSE R(a[1] * b[2] + b[1] * a[2], a[2] * b[2])

RNeg(a) == <<-a[1], a[2]>>

RSub(a, b) == RAdd(a, RNeg(b))

RMul(a, b) == R(a[1] * b[1], a[2] * b[2])

RDiv(a, b) == R(a[1] * b[2], a[2] * b[1])

\* a < b; every comparison with nan is false.  The two sides are brought to
\* the least common denominator, which keeps the products small
RLt(a, b) ==
    /\ a # NaN
    /\ b # NaN
    /\ IF a[2] = 0 /\ b[2] = 0 THEN a[1] < b[1]
       ELSE LET g == GCD(a[2], b[2])
            IN  a[1] * (b[2] \div g) < b[1] * (a[2] \div g)

RLe(a, b) == a # NaN /\ b # NaN /\ (a = b \/ RLt(a, b))

----------------------------------------------------------------------------
(* Shapes and broadcasting *)

Shapes == UNION {[1..r -> 1..MaxDim] : r \in 0..2}

Max(a, b) == IF a >= b THEN a ELSE b

\* s with leading 1s up to rank r
Pad(s, r) == [i \in 1..r |-> IF i <= r - Len(s) THEN 1 ELSE s[i - (r - Len(s))]]

Broadcastable(s, t) ==
    LET r == Max(Len(s), Len(t))
    IN  \A i \in 1..r : Pad(s, r)[i] = Pad(t, r)[i] \/ Pad(s, r)[i] = 1 \/ Pad(t, r)[i] = 1

Broadcast(s, t) ==
    LET r == Max(Len(s), Len(t))
    IN  [i \in 1..r |-> Max(Pad(s, r)[i], Pad(t, r)[i])]

----------------------------------------------------------------------------
(* Tensors and the elementwise primitives the operators use *)

T(s, x) == [shape |-> s, v |-> x]

\* a Python number used as an operand
Scalar(x) == T(<<>>, x)

\* the null gradient
None == [shape |-> <<>>, v |-> <<>>]

TAdd(a, b) == T(Broadcast(a.shape, b.shape), RAdd(a.v, b.v))
TSub(a, b) == T(Broadcast(a.shape, b.shape), RSub(a.v, b.v))
TMul(a, b) == T(Broadcast(a.shape, b.shape), RMul(a.v, b.v))
TDiv(a, b) == T(Broadcast(a.shape, b.shape), RDiv(a.v, b.v))
TNeg(a) == T(a.shape, RNeg(a.v))
TGt(a, b) == T(Broadcast(a.shape, b.shape), RLt(b.v, a.v))
TLt(a, b) == T(Broadcast(a.shape, b.shape), RLt(a.v, b.v))
TEq(a, b) == T(Broadcast(a.shape, b.shape), a.v = b.v)

\* torch.where(c, a, b)
TWhere(c, a, b) ==
    T(Broadcast(c.shape, Broadcast(a.shape, b.shape)), IF c.v THEN a.v ELSE b.v)

\* torch.ones(shape), torch.zeros_like(a)
TOnes(s) == T(s, One)
TZerosLike(a) == T(a.shape, Zero)

----------------------------------------------------------------------------
(* Inputs the model draws *)

\* success probabilities handed to the Bernoulli and Binomial samplers
\* (torch.bernoulli and torch.distributions.Binomial reject p outside [0,1])
ProbCells == {R(0, 1), R(3, 10), R(2, 5), R(1, 1)}

\* trial counts handed to Binomial
CountCells == {R(0, 1), R(1, 1), R(2, 1), R(5, 1)}

\* p handed to Geometric: not validated, so also 0, 1 and values outside [0,1]
GeoCells == {R(-1, 1), R(0, 1), R(1, 200000), R(1, 2), R(1, 1), R(2, 1)}

\* uniform draws followed for Geometric (torch.rand returns values in [0,1), 0 included)
GeoDraws == {R(0, 1), R(1, 100000), R(1, 2), R(3, 4), R(7, 8)}

\* upstream gradient cells
GradCells == {R(k, 1) : k \in -1..MaxG}

\* uniform draws of torch.rand on its grid
RandDraws == {R(k, RandSteps) : k \in 0..(RandSteps - 1)}

RECURSIVE SeqSum(_)
SeqSum(s) == IF s = <<>> THEN 0 ELSE s[1] + SeqSum(Tail(s))

\* float probability vectors: non-negative grid entries whose sum is 1 to
\* within SumTol steps
ProbVectors ==
    {[i \in 1..Len(k) |-> R(k[i], RandSteps)] :
        k \in {x \in UNION {[1..l -> 0..(RandSteps + SumTol)] : l \in 1..MaxLen} :
                  Abs(SeqSum(x) - RandSteps) <= SumTol}}

----------------------------------------------------------------------------
(* StraightThroughBernoulli *)

\* torch.bernoulli(p): the outcomes of positive probability
BernoulliSample(p) == {x \in {Zero, One} : (x = One => RLt(Zero, p)) /\ (x = Zero => RLt(p, One))}

\* forward(ctx, p) with the draw r
STBernoulliForward(p, r) ==
    LET result == T(p.shape, r)
    IN  [caller |-> <<p>>, ctx |-> <<result, p>>, saves |-> 1, out |-> result]

\* faulty variant: backward stores the upstream gradient in the context
STBernoulliBackwardSaving(saved, g) ==
    LET result == saved[1]
        ws     == TOnes(result.shape)
    IN  [ctx |-> Append(saved, g), reads |-> 1, raised |-> FALSE, grads |-> <<TMul(g, ws)>>]

\* backward(ctx, grad_output)
STBernoulliBackward(saved, g) ==
    LET result == saved[1]
        p      == saved[2]
        ws     == TOnes(result.shape)
    IN  [ctx |-> saved, reads |-> 1, raised |-> FALSE, grads |-> <<TMul(g, ws)>>]

----------------------------------------------------------------------------
(* Bernoulli (weighted jump) *)

BernoulliForward(p, r) ==
    LET result == T(p.shape, r)
    IN  [caller |-> <<p>>, ctx |-> <<result, p>>, saves |-> 1, out |-> result]

\* faulty variant: the two jump weights are selected the wrong way round
BernoulliBackwardSwapped(saved, g) ==
    LET result  == saved[1]
        p       == saved[2]
        w_minus == TDiv(TDiv(Scalar(One), p), Scalar(Two))
        w_plus  == TDiv(TDiv(Scalar(One), TSub(Scalar(One), p)), Scalar(Two))
        ws      == TWhere(TEq(result, Scalar(One)), w_plus, w_minus)
    IN  [ctx |-> saved, reads |-> 1, raised |-> FALSE, grads |-> <<TMul(g, ws)>>]

BernoulliBackward(saved, g) ==
    LET result  == saved[1]
        p       == saved[2]
        w_minus == TDiv(TDiv(Scalar(One), p), Scalar(Two))
        w_plus  == TDiv(TDiv(Scalar(One), TSub(Scalar(One), p)), Scalar(Two))
        ws      == TWhere(TEq(result, Scalar(One)), w_minus, w_plus)
    IN  [ctx |-> saved, reads |-> 1, raised |-> FALSE, grads |-> <<TMul(g, ws)>>]

----------------------------------------------------------------------------
(* Binomial *)

\* torch.distributions.binomial.Binomial(n, p).sample(): the outcomes of
\* positive probability in one cell
BinomialSample(n, p) ==
    {R(k, 1) : k \in {j \in 0..n[1] : (j > 0 => RLt(Zero, p)) /\ (j < n[1] => RLt(p, One))}}

\* forward(ctx, n, p) with the draw r; the sample has the broadcast shape
BinomialForward(n, p, r) ==
    LET result == T(Broadcast(n.shape, p.shape), r)
    IN  [caller |-> <<n, p>>, ctx |-> <<result, p, n>>, saves |-> 1, out |-> result]

\* faulty variant: the two contributions are summed, not averaged
BinomialBackwardNoAverage(saved, g) ==
    LET result      == saved[1]
        p           == saved[2]
        n           == saved[3]
        w_minus     == TDiv(result, p)
        w_plus      == TDiv(TSub(n, result), TSub(Scalar(One), p))
        wminus_cont == TWhere(TGt(result, Scalar(Zero)), w_minus, Scalar(Zero))
        wplus_cont  == TWhere(TLt(result, n), w_plus, Scalar(Zero))
        ws          == TAdd(wminus_cont, wplus_cont)
    IN  [ctx |-> saved, reads |-> 1, raised |-> FALSE, grads |-> <<None, TMul(g, ws)>>]

\* faulty variant: the upward jump is divided by p instead of 1 - p
BinomialBackwardWrongDivisor(saved, g) ==
    LET result      == saved[1]
        p           == saved[2]
        n           == saved[3]
        w_minus     == TDiv(result, p)
        w_plus      == TDiv(TSub(n, result), p)
        wminus_cont == TWhere(TGt(result, Scalar(Zero)), w_minus, Scalar(Zero))
        wplus_cont  == TWhere(TLt(result, n), w_plus, Scalar(Zero))
        ws          == TDiv(TAdd(wminus_cont, wplus_cont), Scalar(Two))
    IN  [ctx |-> saved, reads |-> 1, raised |-> FALSE, grads |-> <<None, TMul(g, ws)>>]

BinomialBackward(saved, g) ==
    LET result      == saved[1]
        p           == saved[2]
        n           == saved[3]
        w_minus     == TDiv(result, p)
        w_plus      == TDiv(TSub(n, result), TSub(Scalar(One), p))
        wminus_cont == TWhere(TGt(result, Scalar(Zero)), w_minus, Scalar(Zero))
        wplus_cont  == TWhere(TLt(result, n), w_plus, Scalar(Zero))
        ws          == TDiv(TAdd(wminus_cont, wplus_cont), Scalar(Two))
    IN  [ctx |-> saved, reads |-> 1, raised |-> FALSE, grads |-> <<None, TMul(g, ws)>>]

----------------------------------------------------------------------------
(* Geometric *)

\* the clamp bounds 1e-5 and 1 - 1e-5
ClampMin == R(1, 100000)
ClampMax == RSub(One, R(1, 100000))

\* torch.clamp(p, min=lo, max=hi)
TClamp(p, lo, hi) ==
    T(p.shape, IF RLt(p.v, lo) THEN lo ELSE IF RLt(hi, p.v) THEN hi ELSE p.v)

\* whether pow * b can be formed and compared with a in machine integers
Fits(a, b, pow) ==
    /\ pow[2] <= 2147483647 \div b[2]
    /\ LET d == pow[2] * b[2]
       IN  d \div GCD(d, a[2]) <= 2147483647 \div a[2]

\* least k >= start with b^k <= a, given pow = b^start; MaxSample + 1 when
\* there is none up to MaxSample or the powers leave the machine integers
RECURSIVE LeastPower(_, _, _, _)
LeastPower(a, b, pow, k) ==
    IF RLe(pow, a) THEN k
    ELSE IF k >= MaxSample \/ ~Fits(a, b, pow) THEN MaxSample + 1
    ELSE LeastPower(a, b, RMul(pow, b), k + 1)

\* torch.ceil(torch.log(a) / torch.log(b)) in a cell with 0 < a <= 1 and
\* 0 < b < 1: ceil(x) is the least integer k >= x, and k >= log a / log b
\* exactly when b^k <= a (log b < 0); a = 1 gives log a = 0 and the sample 0
CeilLogRatio(a, b) == R(LeastPower(a, b, One, 0), 1)

\* faulty variant: the clamp is dropped from what is saved for backward
GeometricForwardSavesUnclamped(p0, r) ==
    LET p      == TClamp(p0, ClampMin, ClampMax)
        u      == T(p.shape, r)
        result == T(Broadcast(u.shape, p.shape),
                    CeilLogRatio(RSub(One, u.v), RSub(One, p.v)))
    IN  [caller |-> <<p0>>, ctx |-> <<result, p0>>, saves |-> 1, out |-> result]

\* faulty variant: the clamp is done in place (clamp_), on the caller's tensor
GeometricForwardInPlace(p0, r) ==
    LET p      == TClamp(p0, ClampMin, ClampMax)
        u      == T(p.shape, r)
        result == T(Broadcast(u.shape, p.shape),
                    CeilLogRatio(RSub(One, u.v), RSub(One, p.v)))
    IN  [caller |-> <<p>>, ctx |-> <<result, p>>, saves |-> 1, out |-> result]

\* forward(ctx, p) with the uniform draw r
GeometricForward(p0, r) ==
    LET p      == TClamp(p0, ClampMin, ClampMax)
        u      == T(p.shape, r)
        result == T(Broadcast(u.shape, p.shape),
                    CeilLogRatio(RSub(One, u.v), RSub(One, p.v)))
    IN  [caller |-> <<p0>>, ctx |-> <<result, p>>, saves |-> 1, out |-> result]

GeometricBackward(saved, g) ==
    LET result       == saved[1]
        p            == saved[2]
        w_plus       == TDiv(Scalar(One), p)
        w_minus      == TDiv(TSub(result, Scalar(One)), TSub(Scalar(One), p))
        w_plus_cont  == TWhere(TGt(result, Scalar(Zero)), w_plus, TZerosLike(w_plus))
        w_minus_cont == TWhere(TGt(result, Scalar(One)), w_minus, TZerosLike(w_minus))
        ws           == TDiv(TAdd(w_plus_cont, w_minus_cont), Scalar(Two))
    IN  [ctx |-> saved, reads |-> 1, raised |-> FALSE, grads |-> <<TMul(g, ws)>>]

----------------------------------------------------------------------------
(* StochasticCategorical *)

\* torch.cumsum(x, dim=0)
RECURSIVE CumSum(_)
CumSum(x) ==
    IF Len(x) <= 1 THEN x
    ELSE LET c == CumSum(SubSeq(x, 1, Len(x) - 1))
         IN  Append(c, RAdd(c[Len(c)], x[Len(x)]))

\* torch.sum(x)
RECURSIVE Sum(_)
Sum(x) == IF x = <<>> THEN Zero ELSE RAdd(x[1], Sum(Tail(x)))

\* torch.searchsorted(sorted, u): the number of entries below u, which is the
\* 0-based position of the first entry >= u, or len(sorted) when there is none
SearchSorted(sorted, u) == Cardinality({j \in 1..Len(sorted) : RLt(sorted[j], u)})

\* forward(ctx, probs) with the uniform draw r
CategoricalForward(probs, r) ==
    LET cum_probs == CumSum(probs.v)
        idx_int   == SearchSorted(cum_probs, r)
    IN  [caller |-> <<probs>>,
         ctx    |-> <<probs, T(<<>>, R(idx_int, 1))>>,
         saves  |-> 1,
         out    |-> T(<<>>, R(idx_int, 1))]

\* faulty variant: F_lower sums probs[:i+1], the sampled category included
CategoricalBackwardInclusive(saved, g) ==
    LET probs      == saved[1]
        i          == saved[2].v[1]
        n          == probs.shape[1]
        grad_probs == [j \in 1..n |-> Zero]
    IN  IF i = 0
        THEN [ctx |-> saved, reads |-> 1, raised |-> FALSE, grads |-> <<T(probs.shape, grad_probs)>>]
        ELSE IF i >= n
        THEN [ctx |-> saved, reads |-> 1, raised |-> TRUE, grads |-> <<>>]
        ELSE LET F_lower == Sum(SubSeq(probs.v, 1, i + 1))
                 w       == RDiv(F_lower, probs.v[i + 1])
             IN  [ctx |-> saved, reads |-> 1, raised |-> FALSE,
                  grads |-> <<T(probs.shape, [grad_probs EXCEPT ![i + 1] = RMul(g.v, RNeg(w))])>>]

\* backward(ctx, grad_output); indexing probs[i] with i >= n raises IndexError
CategoricalBackward(saved, g) ==
    LET probs      == saved[1]
        i          == saved[2].v[1]
        n          == probs.shape[1]
        grad_probs == [j \in 1..n |-> Zero]
    IN  IF i = 0
        THEN [ctx |-> saved, reads |-> 1, raised |-> FALSE, grads |-> <<T(probs.shape, grad_probs)>>]
        ELSE IF i >= n
        THEN [ctx |-> saved, reads |-> 1, raised |-> TRUE, grads |-> <<>>]
        ELSE LET F_lower == Sum(SubSeq(probs.v, 1, i))
                 w       == RDiv(F_lower, probs.v[i + 1])
             IN  [ctx |-> saved, reads |-> 1, raised |-> FALSE,
                  grads |-> <<T(probs.shape, [grad_probs EXCEPT ![i + 1] = RMul(g.v, RNeg(w))])>>]

----------------------------------------------------------------------------
(* The invocations: Function.apply runs forward on a fresh context; the    *)
(* autograd engine later runs the matching backward on that context, once  *)

Init ==
    /\ op = "none"
    /\ phase = "idle"
    /\ passed = <<>>
    /\ draw = Zero
    /\ caller = <<>>
    /\ ctx = <<>>
    /\ out = None
    /\ grad_output = None
    /\ grads = <<>>
    /\ saves = 0
    /\ reads = 0

\* a forward call on a fresh context (phase = "idle"): inputs are the tensors
\* passed, r the sampler's draw, run what the operator's forward did
Forward(name, inputs, r, run) ==
    /\ op' = name
    /\ phase' = "saved"
    /\ passed' = inputs
    /\ draw' = r
    /\ caller' = run.caller
    /\ ctx' = run.ctx
    /\ saves' = run.saves
    /\ reads' = 0
    /\ out' = run.out
    /\ grad_output' = None
    /\ grads' = <<>>

\* the backward call matching a forward (phase = "saved"), with upstream
\* gradient g; run is what the operator's backward did
Backward(g, run) ==
    /\ phase' = IF run.raised THEN "failed" ELSE "done"
    /\ ctx' = run.ctx
    /\ reads' = reads + run.reads
    /\ grad_output' = g
    /\ grads' = run.grads
    /\ UNCHANGED <<op, passed, draw, caller, out, saves>>

\* upstream gradients have the shape of forward's output
UpstreamGrads == {T(out.shape, x) : x \in GradCells}

STBernoulliApply ==
    /\ phase = "idle"
    /\ \E s \in Shapes, x \in ProbCells :
           \E r \in BernoulliSample(x) :
               Forward("StraightThroughBernoulli", <<T(s, x)>>, r, STBernoulliForward(T(s, x), r))

STBernoulliGrad ==
    /\ op = "StraightThroughBernoulli"
    /\ phase = "saved"
    /\ \E g \in UpstreamGrads :
           Backward(g, STBernoulliBackward(ctx, g))

BernoulliApply ==
    /\ phase = "idle"
    /\ \E s \in Shapes, x \in ProbCells :
           \E r \in BernoulliSample(x) :
               Forward("Bernoulli", <<T(s, x)>>, r, BernoulliForward(T(s, x), r))

BernoulliGrad ==
    /\ op = "Bernoulli"
    /\ phase = "saved"
    /\ \E g \in UpstreamGrads :
           Backward(g, BernoulliBackward(ctx, g))

BinomialApply ==
    /\ phase = "idle"
    /\ \E sn \in Shapes, sp \in Shapes, k \in CountCells, x \in ProbCells :
           /\ Broadcastable(sn, sp)
           /\ \E r \in BinomialSample(k, x) :
                  Forward("Binomial", <<T(sn, k), T(sp, x)>>, r,
                          BinomialForward(T(sn, k), T(sp, x), r))

BinomialGrad ==
    /\ op = "Binomial"
    /\ phase = "saved"
    /\ \E g \in UpstreamGrads :
           Backward(g, BinomialBackward(ctx, g))

GeometricApply ==
    /\ phase = "idle"
    /\ \E s \in Shapes, x \in GeoCells, r \in GeoDraws :
           LET run == GeometricForward(T(s, x), r)
           IN  /\ RLe(run.out.v, R(MaxSample, 1))
               /\ Forward("Geometric", <<T(s, x)>>, r, run)

GeometricGrad ==
    /\ op = "Geometric"
    /\ phase = "saved"
    /\ \E g \in UpstreamGrads :
           Backward(g, GeometricBackward(ctx, g))

CategoricalApply ==
    /\ phase = "idle"
    /\ \E x \in ProbVectors, r \in RandDraws :
           Forward("StochasticCategorical", <<T(<<Len(x)>>, x)>>, r,
                   CategoricalForward(T(<<Len(x)>>, x), r))

CategoricalGrad ==
    /\ op = "StochasticCategorical"
    /\ phase = "saved"
    /\ \E g \in UpstreamGrads :
           Backward(g, CategoricalBackward(ctx, g))

\* the engine drops the invocation's graph and its context
Release ==
    /\ phase # "idle"
    /\ op' = "none"
    /\ phase' = "idle"
    /\ passed' = <<>>
    /\ draw' = Zero
    /\ caller' = <<>>
    /\ ctx' = <<>>
    /\ out' = None
    /\ grad_output' = None
    /\ grads' = <<>>
    /\ saves' = 0
    /\ reads' = 0

Next ==
    \/ STBernoulliApply
    \/ STBernoulliGrad
    \/ BernoulliApply
    \/ BernoulliGrad
    \/ BinomialApply
    \/ BinomialGrad
    \/ GeometricApply
    \/ GeometricGrad
    \/ CategoricalApply
    \/ CategoricalGrad
    \/ Release

Spec == Init /\ [][Next]_vars

----------------------------------------------------------------------------
(* Properties *)

Returned == phase = "done"

\* the sampled index StochasticCategorical saved, and the vector it was given
SavedIndex == ctx[2].v[1]
ProbsPassed == passed[1].v

InUnitInterval(x) == RLt(Zero, x) /\ RLt(x, One)

\* C1 (as amended): when StochasticCategorical.backward returns, which it
\* does exactly for a saved index i < len(probs), the gradient has one entry
\* per probability; for i = 0 all entries are zero; for i > 0 the entry at i
\* is -g * F_lower / probs[i] with F_lower = sum(probs[0:i]) (zero when g = 0
\* or F_lower = 0) and every other entry is zero.
C1_CategoricalGradient ==
    (op = "StochasticCategorical" /\ phase \in {"done", "failed"}) =>
        LET i == SavedIndex
            n == Len(ProbsPassed)
        IN  /\ Returned <=> i < n
            /\ Returned =>
                 LET gr == grads[1].v
                 IN  /\ Len(gr) = n
                     /\ \A j \in 0..(n - 1) : (j # i \/ i = 0) => gr[j + 1] = Zero
                     /\ i > 0 =>
                          gr[i + 1] = RDiv(RMul(RNeg(grad_output.v), Sum(SubSeq(ProbsPassed, 1, i))),
                                           ProbsPassed[i + 1])

\* C1 witness: probs = [0.2, 0.3, 0.5], sampled index 2, g = 1 gives [0, 0, -1].
C1_Witness ==
    /\ op = "StochasticCategorical"
    /\ Returned
    /\ ProbsPassed = <<R(2, 10), R(3, 10), R(5, 10)>>
    /\ SavedIndex = 2
    /\ grad_output.v = One
    /\ grads[1].v = <<Zero, Zero, R(-1, 1)>>

\* C1 as originally stated: whenever backward returns for a sampled index
\* i > 0, exactly one entry of the gradient is non-zero, the one at i.
C1_ExactlyOneNonZero ==
    (op = "StochasticCategorical" /\ Returned /\ SavedIndex > 0) =>
        {j \in 1..Len(grads[1].v) : grads[1].v[j] # Zero} = {SavedIndex + 1}

\* C2: every sample Geometric.forward returns is a positive integer (>= 1),
\* for every p and every uniform draw in [0,1), u = 0 included.
C2_GeometricSamplePositive ==
    (op = "Geometric" /\ phase # "idle") => RLe(One, out.v)

\* C3: StochasticCategorical.forward returns the first position i with
\* u <= cum_probs[i], and that index lies in 0 .. len(probs)-1.
C3_CategoricalIndexInRange ==
    (op = "StochasticCategorical" /\ phase # "idle") =>
        LET cum == CumSum(ProbsPassed)
            i   == SavedIndex
        IN  /\ i \in 0..(Len(ProbsPassed) - 1)
            /\ RLe(draw, cum[i + 1])
            /\ \A j \in 1..i : ~RLe(draw, cum[j])
            /\ out.v = R(i, 1)

\* C4: Binomial.backward returns a null gradient for n and g * w for p, with
\* w = (down + up) / 2, down = sample / p if sample > 0 else 0,
\* up = (n - sample) / (1 - p) if sample < n else 0, for p in (0,1).
C4_BinomialGradient ==
    (op = "Binomial" /\ Returned /\ InUnitInterval(passed[2].v)) =>
        LET n      == passed[1].v
            p      == passed[2].v
            sample == out.v
            g      == grad_output.v
            down   == IF RLt(Zero, sample) THEN RDiv(sample, p) ELSE Zero
            up     == IF RLt(sample, n) THEN RDiv(RSub(n, sample), RSub(One, p)) ELSE Zero
        IN  /\ grads[1] = None
            /\ grads[2].v = RMul(g, RDiv(RAdd(down, up), Two))
            /\ sample = Zero => grads[2].v = RMul(g, RDiv(up, Two))
            /\ sample = n => grads[2].v = RMul(g, RDiv(down, Two))

\* C4 witness: n = 5, p = 0.4, sample = 2, g = 1 gives the gradient 5.
C4_Witness ==
    /\ op = "Binomial"
    /\ Returned
    /\ passed[1].v = R(5, 1)
    /\ passed[2].v = R(2, 5)
    /\ out.v = R(2, 1)
    /\ grad_output.v = One
    /\ grads = <<None, T(out.shape, R(5, 1))>>

\* C5: Bernoulli.backward returns g / (2p) where the sample is 1 and
\* g / (2(1-p)) where it is 0, for p in (0,1).
C5_BernoulliGradient ==
    (op = "Bernoulli" /\ Returned /\ InUnitInterval(passed[1].v)) =>
        LET p == passed[1].v
            g == grad_output.v
        IN  /\ out.v \in {Zero, One}
            /\ out.v = One => grads[1].v = RDiv(g, RMul(Two, p))
            /\ out.v = Zero => grads[1].v = RDiv(g, RMul(Two, RSub(One, p)))

\* C5 witness: p = 0.3, sample = 1, g = 1 gives 1/0.6.
C5_Witness ==
    /\ op = "Bernoulli"
    /\ Returned
    /\ passed[1].v = R(3, 10)
    /\ out.v = One
    /\ grad_output.v = One
    /\ grads[1].v = R(5, 3)

\* C6: whatever p the caller gave Geometric, the p its backward reads from
\* the context lies in [1e-5, 1 - 1e-5], so neither divisor p nor 1 - p is
\* zero and backward returns a finite gradient; for sample = 1 the downward
\* term is excluded and the weight is (1/p)/2.
C6_GeometricClampedDivisors ==
    (op = "Geometric" /\ phase # "idle") =>
        LET p == ctx[2].v
        IN  /\ RLe(R(1, 100000), p)
            /\ RLe(p, R(99999, 100000))
            /\ p # Zero
            /\ RSub(One, p) # Zero
            /\ phase # "failed"
            /\ Returned => IsFinite(grads[1].v)
            /\ (Returned /\ out.v = One) =>
                 grads[1].v = RMul(grad_output.v, RDiv(RDiv(One, p), Two))

\* C6 witness: the caller passed p = 0, the sample was 1 and backward returned.
C6_Witness ==
    /\ op = "Geometric"
    /\ Returned
    /\ passed[1].v = Zero
    /\ out.v = One
    /\ grad_output.v = One
    /\ grads[1].v = R(50000, 1)

\* C7: the gradient backward returns for a differentiable parameter has the
\* shape of that parameter as passed to forward, and Binomial's n gets None.
C7_GradientShapePreserved ==
    Returned =>
        IF op = "Binomial"
        THEN grads[1] = None /\ grads[2].shape = passed[2].shape
        ELSE grads[1].shape = passed[1].shape

SavedAs(p) ==
    CASE op \in {"StraightThroughBernoulli", "Bernoulli"} -> ctx = <<out, passed[1]>>
      [] op = "Binomial" -> ctx = <<out, passed[2], passed[1]>>
      [] op = "Geometric" -> ctx = <<out, p>>
      [] op = "StochasticCategorical" -> ctx = <<passed[1], T(<<>>, out.v)>>

\* C9 (as amended): after forward the context holds the sampled result and
\* the parameters as passed (with the sampled index for Categorical), except
\* that Geometric saves p clamped into [1e-5, 1 - 1e-5]; the caller's
\* tensors are unchanged by forward and backward.
C9_ContextHoldsResultAndParams ==
    phase # "idle" =>
        /\ caller = passed
        /\ SavedAs(LET x == passed[1].v
                   IN  T(passed[1].shape,
                         IF RLt(x, R(1, 100000)) THEN R(1, 100000)
                         ELSE IF RLt(R(99999, 100000), x) THEN R(99999, 100000)
                         ELSE x))

\* C9 witness: Geometric was passed p = 0 and saved 1e-5; the caller still holds 0.
C9_Witness ==
    /\ op = "Geometric"
    /\ Returned
    /\ passed[1].v = Zero
    /\ caller[1].v = Zero
    /\ ctx[2].v = R(1, 100000)

\* C9 as originally stated: the context holds the parameters exactly as the
\* caller passed them, for all five operators.
C9_ContextHoldsOriginalParams ==
    phase # "idle" => (caller = passed /\ SavedAs(passed[1]))

\* C10: with n = 1 and p in (0,1), the gradient Binomial.backward returns
\* for p is the one Bernoulli.backward returns on the same sample, p and g,
\* and conversely.
C10_BinomialOneIsBernoulli ==
    /\ (op = "Binomial" /\ Returned /\ passed[1].v = One /\ InUnitInterval(passed[2].v)) =>
           grads[2] = BernoulliBackward(<<ctx[1], ctx[2]>>, grad_output).grads[1]
    /\ (op = "Bernoulli" /\ Returned /\ InUnitInterval(passed[1].v)) =>
           grads[1] = BinomialBackward(<<ctx[1], ctx[2], Scalar(One)>>, grad_output).grads[2]

\* C10 witness: Binomial with n = 1, p = 0.3 drew 0 and returned g / 1.4.
C10_Witness ==
    /\ op = "Binomial"
    /\ Returned
    /\ passed[1].v = One
    /\ passed[2].v = R(3, 10)
    /\ out.v = Zero
    /\ grad_output.v = Two
    /\ grads[2].v = R(10, 7)

====
